---- MODULE Spec2Model ----
(***************************************************************************)
(* Light probes with order-3 spherical harmonics: unit directions, the    *)
(* 9-coefficient SH vector, Monte Carlo projection and integration.       *)
(*                                                                         *)
(* All arithmetic of the program is IEEE-754 binary32 (Rust f32).  It is  *)
(* modelled bit-exactly: a float is a record [k, s, m, e] with k one of   *)
(* "fin", "inf", "nan", sign s, and for a finite value the magnitude      *)
(* m * 2^e with m < 2^24, in canonical form (m >= 2^23 unless e = -149).  *)
(* Every operation rounds to nearest, ties to even.                       *)
(***************************************************************************)
EXTENDS Integers, Sequences, FiniteSets, TLC

\* ------------------------------------------------------------------------
\* binary32 arithmetic
\* ------------------------------------------------------------------------

Max(a, b) == IF a >= b THEN a ELSE b

Min(a, b) == IF a <= b THEN a ELSE b

Pow2(n) == 2 ^ n

\* smallest and largest exponent of the unit in the last place
MinExp == -126 - 23

MaxExp == 127 - 23

Two23 == 2 ^ 23

Two24 == 2 ^ 24

NaN == [k |-> "nan", s |-> 0, m |-> 0, e |-> 0]

Inf(s) == [k |-> "inf", s |-> s, m |-> 0, e |-> 0]

Fin(s, m, e) == [k |-> "fin", s |-> s, m |-> m, e |-> e]

Zero(s) == Fin(s, 0, MinExp)

IsNaN(a) == a.k = "nan"

IsInf(a) == a.k = "inf"

IsFin(a) == a.k = "fin"

IsZero(a) == a.k = "fin" /\ a.m = 0

Xor(s, t) == (s + t) % 2

\* the number of bits of n < 2^8
BitLen8(n) ==
    IF n < 16
    THEN (IF n < 4 THEN (IF n < 2 THEN n ELSE 2) ELSE (IF n < 8 THEN 3 ELSE 4))
    ELSE (IF n < 64 THEN (IF n < 32 THEN 5 ELSE 6)
          ELSE (IF n < 128 THEN 7 ELSE 8))

\* the number of bits of n < 2^31
BitLen(n) ==
    IF n < 65536
    THEN (IF n < 256 THEN BitLen8(n) ELSE 8 + BitLen8(n \div 256))
    ELSE (IF n < Two24 THEN 16 + BitLen8(n \div 65536)
          ELSE 24 + BitLen8(n \div Two24))

\* F32Round, given the quotient q and remainder r of M by 2^drop and half =
\* 2^(drop-1):
\* round to nearest, ties to even, then renormalise or overflow
RoundPack(s, e, q1) ==
    IF q1 = Two24
    THEN (IF e + 1 > MaxExp THEN Inf(s) ELSE Fin(s, Two23, e + 1))
    ELSE (IF e > MaxExp THEN Inf(s) ELSE Fin(s, q1, e))

RoundShift(s, e, sticky, q, r, half) ==
    RoundPack(s, e,
              IF r > half \/ (r = half /\ (sticky = 1 \/ q % 2 = 1))
              THEN q + 1 ELSE q)

\* an exact value: shift the mantissa up to 24 bits, as far as MinExp allows
RoundExact(s, M, E, up) ==
    IF E - up > MaxExp THEN Inf(s) ELSE Fin(s, M * Pow2(up), E - up)

\* drop: the number of low bits of M that the result drops
RoundAt(s, M, E, sticky, L, drop) ==
    IF drop <= 0 THEN RoundExact(s, M, E, Min(24 - L, E - MinExp))
    ELSE IF drop > L THEN Zero(s)
    ELSE RoundShift(s, E + drop, sticky, M \div Pow2(drop), M % Pow2(drop),
                    Pow2(drop - 1))

\* The binary32 nearest to (-1)^s * (M + f) * 2^E, where 0 < f < 1 when
\* sticky = 1 and f = 0 otherwise; M < 2^30.  With sticky = 1 the callers
\* give M at least 26 bits.
F32Round(s, M, E, sticky) ==
    IF M = 0 THEN Zero(s)
    ELSE RoundAt(s, M, E, sticky, BitLen(M), Max(BitLen(M) - 24, MinExp - E))

\* a float literal that is exactly (-1)^s * m * 2^e
Lit(s, m, e) == F32Round(s, m, e, 0)

\* the mantissa of a nonzero finite float shifted to 24 bits, with its exponent
NormM(a) == IF a.m >= Two23 THEN a.m ELSE a.m * Pow2(24 - BitLen(a.m))

NormE(a) == IF a.m >= Two23 THEN a.e ELSE a.e - (24 - BitLen(a.m))

F32Neg(a) == IF IsNaN(a) THEN NaN ELSE [a EXCEPT !.s = 1 - a.s]

F32Abs(a) == IF IsNaN(a) THEN NaN ELSE [a EXCEPT !.s = 0]

\* the 48-bit product hi * 2^24 + lo of two 24-bit mantissas, rounded
MulOut(s, hi, lo, e) ==
    F32Round(s, hi * 64 + lo \div 262144, e + 18,
             IF lo % 262144 = 0 THEN 0 ELSE 1)

MulLow(s, h, t, e) == MulOut(s, h + t \div Two24, t % Two24, e)

MulMid(s, hh, mid, ll, e) ==
    MulLow(s, hh + mid \div 4096, (mid % 4096) * 4096 + ll, e)

\* the mantissas in 12-bit halves: (ah * 2^12 + al) * (bh * 2^12 + bl)
MulParts(s, ah, al, bh, bl, e) ==
    MulMid(s, ah * bh, ah * bl + al * bh, al * bl, e)

\* a * b
F32Mul(a, b) ==
    IF IsNaN(a) \/ IsNaN(b) THEN NaN
    ELSE IF IsInf(a) \/ IsInf(b)
         THEN IF IsZero(a) \/ IsZero(b) THEN NaN ELSE Inf(Xor(a.s, b.s))
    ELSE IF IsZero(a) \/ IsZero(b) THEN Zero(Xor(a.s, b.s))
    ELSE MulParts(Xor(a.s, b.s), NormM(a) \div 4096, NormM(a) % 4096,
                  NormM(b) \div 4096, NormM(b) % 4096, NormE(a) + NormE(b))

\* |a| < |b| for finite a, b in canonical form
MagLt(a, b) == a.e < b.e \/ (a.e = b.e /\ a.m < b.m)

\* X * 2^e plus or minus (Y + f) * 2^e, with 0 < f < 1 when st = 1
AddSum(xs, ys, X, Y, st, e) ==
    IF xs = ys THEN F32Round(xs, X + Y, e, st)
    ELSE IF X = Y /\ st = 0 THEN Zero(0)
    ELSE F32Round(xs, X - Y - st, e, st)

\* |x| >= |y|: three guard bits, y shifted down by the exponent difference d
AddShift(x, y, d) ==
    IF d > 27
    THEN AddSum(x.s, y.s, x.m * 8, 0, IF y.m = 0 THEN 0 ELSE 1, x.e - 3)
    ELSE AddSum(x.s, y.s, x.m * 8, (y.m * 8) \div Pow2(d),
                IF (y.m * 8) % Pow2(d) = 0 THEN 0 ELSE 1, x.e - 3)

\* a + b
F32Add(a, b) ==
    IF IsNaN(a) \/ IsNaN(b) THEN NaN
    ELSE IF IsInf(a) /\ IsInf(b) THEN (IF a.s = b.s THEN a ELSE NaN)
    ELSE IF IsInf(a) THEN a
    ELSE IF IsInf(b) THEN b
    ELSE IF MagLt(a, b) THEN AddShift(b, a, b.e - a.e)
    ELSE AddShift(a, b, a.e - b.e)

F32Sub(a, b) == F32Add(a, F32Neg(b))

\* n more quotient bits of r / d, after the bits q
RECURSIVE LongDiv(_, _, _, _)
LongDiv(r, d, q, n) ==
    IF n = 0 THEN <<q, r>>
    ELSE IF 2 * r >= d THEN LongDiv(2 * r - d, d, 2 * q + 1, n - 1)
         ELSE LongDiv(2 * r, d, 2 * q, n - 1)

\* a quotient or root qr[1] with remainder qr[2], rounded
QuotOut(s, qr, e) == F32Round(s, qr[1], e, IF qr[2] = 0 THEN 0 ELSE 1)

DivNorm(s, ma, mb, e) ==
    QuotOut(s, LongDiv(ma % mb, mb, ma \div mb, 26), e - 26)

\* a / b
F32Div(a, b) ==
    IF IsNaN(a) \/ IsNaN(b) THEN NaN
    ELSE IF IsInf(a) THEN (IF IsInf(b) THEN NaN ELSE Inf(Xor(a.s, b.s)))
    ELSE IF IsInf(b) THEN Zero(Xor(a.s, b.s))
    ELSE IF IsZero(b) THEN (IF IsZero(a) THEN NaN ELSE Inf(Xor(a.s, b.s)))
    ELSE IF IsZero(a) THEN Zero(Xor(a.s, b.s))
    ELSE DivNorm(Xor(a.s, b.s), NormM(a), NormM(b), NormE(a) - NormE(b))

\* the integer square root, two bits of v at a time from pair i down, then
\* z pairs of zero bits: <<root, remainder>>
RECURSIVE SqrtBits(_, _, _, _, _)
SqrtStep(v, i, z, root, r) ==
    IF r >= 4 * root + 1 THEN SqrtBits(v, i, z, 2 * root + 1, r - (4 * root + 1))
    ELSE SqrtBits(v, i, z, 2 * root, r)

SqrtBits(v, i, z, root, rem) ==
    IF i >= 0
    THEN SqrtStep(v, i - 1, z, root, rem * 4 + ((v \div Pow2(2 * i)) % 4))
    ELSE IF z > 0 THEN SqrtStep(v, i, z - 1, root, rem * 4)
    ELSE <<root, rem>>

\* the root of m * 2^e, e even, m < 2^25
SqrtNorm(m, e) == QuotOut(0, SqrtBits(m, 12, 14, 0, 0), (e \div 2) - 14)

\* sqrt(a)
F32Sqrt(a) ==
    IF IsNaN(a) THEN NaN
    ELSE IF IsZero(a) THEN a
    ELSE IF a.s = 1 THEN NaN
    ELSE IF IsInf(a) THEN a
    ELSE IF NormE(a) % 2 = 1 THEN SqrtNorm(2 * NormM(a), NormE(a) - 1)
    ELSE SqrtNorm(NormM(a), NormE(a))

\* a < b
F32Lt(a, b) ==
    IF IsNaN(a) \/ IsNaN(b) THEN FALSE
    ELSE IF IsZero(a) /\ IsZero(b) THEN FALSE
    ELSE IF a.s # b.s THEN a.s = 1
    ELSE IF a = b THEN FALSE
    ELSE (a.s = 0) <=> (IF IsInf(b) THEN TRUE
                        ELSE IF IsInf(a) THEN FALSE
                        ELSE MagLt(a, b))

\* a == b
F32Eq(a, b) ==
    IF IsNaN(a) \/ IsNaN(b) THEN FALSE
    ELSE (IsZero(a) /\ IsZero(b)) \/ a = b

F32Gt(a, b) == F32Lt(b, a)

F32Le(a, b) == F32Lt(a, b) \/ F32Eq(a, b)

F32Ge(a, b) == F32Le(b, a)

\* ------------------------------------------------------------------------
\* f32 literals of the program
\* ------------------------------------------------------------------------

F32Zero == Zero(0)

One == Lit(0, 1, 0)

Two == Lit(0, 2, 0)

Four == Lit(0, 4, 0)

Sixteen == Lit(0, 16, 0)

Half == Lit(0, 1, -1)

\* std::f32::consts::PI = 0x40490FDB
PI == Fin(0, 13176795, -22)

\* 1e-5f32 = 0x3727C5AC
Tolerance == Fin(0, 10995116, -40)

\* count as f32, for a count below 2^24
U32AsF32(n) == F32Round(0, n, 0, 0)

\* ------------------------------------------------------------------------
\* Direction
\* ------------------------------------------------------------------------

Direction(x, y, z) == [x |-> x, y |-> y, z |-> z]

\* x*x + y*y + z*z
SqNorm(x, y, z) == F32Add(F32Add(F32Mul(x, x), F32Mul(y, y)), F32Mul(z, z))

\* the condition of the assertion in Direction::new
IsNormalized(x, y, z) ==
    F32Lt(F32Abs(F32Sub(SqNorm(x, y, z), One)), Tolerance)

\* Direction {x: x/r, y: y/r, z: z/r}
DividedBy(x, y, z, r) == Direction(F32Div(x, r), F32Div(y, r), F32Div(z, r))

\* Direction::new with the assertion dropped and the vector normalised instead
Direction_new_normalizing(x, y, z) ==
    [panicked |-> FALSE,
     value |-> <<DividedBy(x, y, z, F32Sqrt(SqNorm(x, y, z)))>>]

\* Direction::new: a panic and no value, or the Direction of the arguments
Direction_new(x, y, z) ==
    IF IsNormalized(x, y, z)
    THEN [panicked |-> FALSE, value |-> <<Direction(x, y, z)>>]
    ELSE [panicked |-> TRUE, value |-> <<>>]

\* rng.gen::<f32>(): 24 random bits k scaled by 2^-24, a value in [0, 1)
GenF32(k) == F32Round(0, k, -24, 0)

\* rng.gen::<f32>() * 2f32 - 1f32
Candidate(k) == F32Sub(F32Mul(GenF32(k), Two), One)

\* a variant that also retries a trial on the sphere itself
RejectedOnSphere(x, y, z) == F32Ge(SqNorm(x, y, z), One)

\* r2 > 1f32: the trial is retried
Rejected(x, y, z) == F32Gt(SqNorm(x, y, z), One)

\* Direction {x: x/r, y: y/r, z: z/r} with r = r2.sqrt()
Normalized(x, y, z) == DividedBy(x, y, z, F32Sqrt(SqNorm(x, y, z)))

\* ------------------------------------------------------------------------
\* SHFuncApproximation
\* ------------------------------------------------------------------------

\* the number of coefficients: vec![0f32; 9], for i in 0..9
NumCoefficients == 9

\* SHFuncApproximation::new with one coefficient too few
SHFuncApproximation_new_short == [i \in 0..(NumCoefficients - 2) |-> F32Zero]

\* SHFuncApproximation::new: coefficients, indexed from 0
SHFuncApproximation_new == [i \in 0..(NumCoefficients - 1) |-> F32Zero]

\* for i in 0..9 { self.coefficients[i] *= scalar; }
RECURSIVE MulLoop(_, _, _)
MulLoop(c, scalar, i) ==
    IF i = NumCoefficients THEN c
    ELSE MulLoop([c EXCEPT ![i] = F32Mul(c[i], scalar)], scalar, i + 1)

mul_in_place(c, scalar) == MulLoop(c, scalar, 0)

\* for i in 0..9 { self.coefficients[i] += other.coefficients[i]; }
RECURSIVE AddLoop(_, _, _)
AddLoop(c, other, i) ==
    IF i = NumCoefficients THEN c
    ELSE AddLoop([c EXCEPT ![i] = F32Add(c[i], other[i])], other, i + 1)

add_in_place(c, other) == AddLoop(c, other, 0)

\* for i in 0..9 { result += self.coefficients[i] * other.coefficients[i]; }
RECURSIVE ConvolutionLoop(_, _, _, _, _)
ConvolutionLoop(c, other, i, n, result) ==
    IF i = n THEN result
    ELSE ConvolutionLoop(c, other, i + 1, n,
                         F32Add(result, F32Mul(c[i], other[i])))

\* convolution with the loop one index short
convolution_short(c, other) ==
    F32Mul(F32Mul(F32Mul(Sixteen, PI), PI),
           ConvolutionLoop(c, other, 0, NumCoefficients - 1, F32Zero))

\* 16f32 * PI * PI * result
convolution(c, other) ==
    F32Mul(F32Mul(F32Mul(Sixteen, PI), PI),
           ConvolutionLoop(c, other, 0, NumCoefficients, F32Zero))

\* the f32 literals of from_direction
K0 == Fin(0, 9465531, -25)       \* 0.2820947917738781f32

K2 == Fin(0, 16394780, -25)      \* 0.4886025119029199f32

K6a == Fin(0, 15874177, -24)     \* 0.9461746957575601f32

K6b == Fin(1, 10582785, -25)     \* -0.3153915652525201f32

KTmpA == Fin(1, 16394780, -25)   \* -0.48860251190292f32

KTmpB == Fin(1, 9164961, -23)    \* -1.092548430592079f32

KTmpC == Fin(0, 9164961, -24)    \* 0.5462742152960395f32

\* from_direction without the assignment of sh[6]
from_direction_skip6(c, direction) ==
    LET f_x     == direction.x
        f_y     == direction.y
        f_z     == direction.z
        f_tmp_b == F32Mul(KTmpB, f_z)
        f_c1    == F32Sub(F32Mul(f_x, f_x), F32Mul(f_y, f_y))
        f_s1    == F32Add(F32Mul(f_x, f_y), F32Mul(f_y, f_x))
    IN  [c EXCEPT ![0] = K0,
                  ![2] = F32Mul(K2, f_z),
                  ![3] = F32Mul(KTmpA, f_x),
                  ![1] = F32Mul(KTmpA, f_y),
                  ![7] = F32Mul(f_tmp_b, f_x),
                  ![5] = F32Mul(f_tmp_b, f_y),
                  ![8] = F32Mul(KTmpC, f_c1),
                  ![4] = F32Mul(KTmpC, f_s1)]

\* from_direction: the assignments to sh[..], in the order of the source
from_direction(c, direction) ==
    LET f_x     == direction.x
        f_y     == direction.y
        f_z     == direction.z
        f_z2    == F32Mul(f_z, f_z)
        f_c0    == f_x
        f_s0    == f_y
        f_tmp_a == KTmpA
        f_tmp_b == F32Mul(KTmpB, f_z)
        f_c1    == F32Sub(F32Mul(f_x, f_c0), F32Mul(f_y, f_s0))
        f_s1    == F32Add(F32Mul(f_x, f_s0), F32Mul(f_y, f_c0))
        f_tmp_c == KTmpC
    IN  [c EXCEPT ![0] = K0,
                  ![2] = F32Mul(K2, f_z),
                  ![6] = F32Add(F32Mul(K6a, f_z2), K6b),
                  ![3] = F32Mul(f_tmp_a, f_c0),
                  ![1] = F32Mul(f_tmp_a, f_s0),
                  ![7] = F32Mul(f_tmp_b, f_c0),
                  ![5] = F32Mul(f_tmp_b, f_s0),
                  ![8] = F32Mul(f_tmp_c, f_c1),
                  ![4] = F32Mul(f_tmp_c, f_s1)]

\* self.convolution(workspace) / (4f32 * PI), and the workspace w as left
EvalResult(c, w) ==
    [workspace |-> w, value |-> F32Div(convolution(c, w), F32Mul(Four, PI))]

\* eval that convolves before it overwrites the workspace
eval_stale(c, direction, workspace) ==
    [workspace |-> from_direction(workspace, direction),
     value |-> F32Div(convolution(c, workspace), F32Mul(Four, PI))]

\* eval: workspace.from_direction(direction), then
\* self.convolution(workspace) / (4f32 * PI); the workspace it leaves and
\* the value it returns
eval(c, direction, workspace) ==
    EvalResult(c, from_direction(workspace, direction))

\* ------------------------------------------------------------------------
\* The functions given to the projection and to the integrators
\* ------------------------------------------------------------------------

\* Direction::dot
dot(a, b) ==
    F32Add(F32Add(F32Mul(a.x, b.x), F32Mul(a.y, b.y)), F32Mul(a.z, b.z))

\* 0.5f32, 0.25f32 and 0.05f32 of the cubemap
Quarter == Lit(0, 1, -2)

Twentieth == Fin(0, 13421773, -28)

\* main: (x*y + 0.5f32*z + 0.25f32 * x + 0.05f32 * x * y) * (1f32 - x*x + y)
cubemap(x, y, z) ==
    F32Mul(F32Add(F32Add(F32Add(F32Mul(x, y), F32Mul(Half, z)),
                         F32Mul(Quarter, x)),
                  F32Mul(F32Mul(Twentieth, x), y)),
           F32Add(F32Sub(One, F32Mul(x, x)), y))

\* main: lightning_function, which panics in Direction::new ("new") or on
\* its assertion cosine >= 0f32 ("cosine")
Lightning(cosine, x, y, z) ==
    IF ~F32Ge(cosine, F32Zero)
    THEN [panic |-> "cosine", value |-> F32Zero]
    ELSE [panic |-> "none", value |-> F32Mul(cosine, cubemap(x, y, z))]

lightning_function(normal, x, y, z) ==
    IF Direction_new(x, y, z).panicked
    THEN [panic |-> "new", value |-> F32Zero]
    ELSE Lightning(dot(normal, Direction(x, y, z)), x, y, z)

\* the closures of the tests: |_x,_y,_z| 1f32, |x,_y,_z| x, |x,y,z| x*x + y*z,
\* and a closure of large values, |_x,_y,_z| 2f32.powi(127)
FuncValue(func, x, y, z) ==
    CASE func = "one"  -> One
      [] func = "x"    -> x
      [] func = "huge" -> Lit(0, 1, 127)
      [] func = "quad" -> F32Add(F32Mul(x, x), F32Mul(y, z))

\* func(direction.x, direction.y, direction.z) for a closure of the tests or
\* for main's lightning_function
CallFunc(func, normal, d) ==
    IF func = "lightning" THEN lightning_function(normal, d.x, d.y, d.z)
    ELSE [panic |-> "none", value |-> FuncValue(func, d.x, d.y, d.z)]

\* approximation.add_in_place(&temporary), with the scratch vector as left
Accumulated(approximation, temporary) ==
    [approximation |-> add_in_place(approximation, temporary),
     temporary |-> temporary]

\* one iteration that scales the scratch vector without overwriting it first
from_function_body_stale(approximation, temporary, func, direction) ==
    Accumulated(approximation,
        mul_in_place(temporary,
                     FuncValue(func, direction.x, direction.y, direction.z)))

\* one iteration of the loop of from_function on the sampled direction:
\* temporary.from_direction(direction); temporary.mul_in_place(func_value);
\* approximation.add_in_place(&temporary)
from_function_body(approximation, temporary, func, direction) ==
    Accumulated(approximation,
        mul_in_place(from_direction(temporary, direction),
                     FuncValue(func, direction.x, direction.y, direction.z)))

\* approximation.mul_in_place(1f32 / (count as f32))
from_function_normalize(approximation, count) ==
    mul_in_place(approximation, F32Div(One, U32AsF32(count)))

\* the loop of from_function over the directions the sampler returned,
\* from iteration i on
RECURSIVE FromFunctionLoop(_, _, _, _)
FromFunctionLoop(r, func, directions, i) ==
    IF i > Len(directions) THEN r.approximation
    ELSE FromFunctionLoop(from_function_body(r.approximation, r.temporary,
                                             func, directions[i]),
                          func, directions, i + 1)

\* SHFuncApproximation::from_function(func, rng, count) when the sampler
\* returns directions, count = Len(directions)
from_function(func, directions) ==
    from_function_normalize(
        FromFunctionLoop([approximation |-> SHFuncApproximation_new,
                          temporary |-> SHFuncApproximation_new],
                         func, directions, 1),
        Len(directions))

\* ------------------------------------------------------------------------
\* State
\* ------------------------------------------------------------------------

VARIABLES
    dnew,   \* a call of Direction::new: its arguments and its outcome
    rng,    \* the randomness source: the stream it yields and the next place
    samp,   \* the frame of generate_random_on_sphere: pc, x, y, z, the return
    sh,     \* two SHFuncApproximation values and the last operation on them
    proj,   \* the frame of from_function
    integ   \* the frame of integrate_real_space(_hemisphere)

vars == <<dnew, rng, samp, sh, proj, integ>>

\* the length of the stream the randomness source repeats
StreamLen == 4

\* the most in-place operations applied to the two SHFuncApproximation values
MaxOps == 2

\* the largest sample count given to from_function and to the integrators
MaxCount == 2

\* the 24-bit draws of the source: gen() = 0, 0.5 and 0.8 (rounded to
\* 2^-24), which give the candidates -1, 0 and 0.6
DrawBits == {0, 8388608, 13421773}

\* 1f32 / 2f32.sqrt()
InvSqrt2 == F32Div(One, F32Sqrt(Two))

Third == F32Div(One, Lit(0, 3, 0))

TwoThirds == F32Div(Two, Lit(0, 3, 0))

\* arguments given to Direction::new: components of unit vectors, of vectors
\* just inside and just outside the tolerance, and of vectors far from it
NewInputs ==
    {F32Zero, One, F32Neg(One), InvSqrt2, Two,
     Fin(0, 10066330, -24), Fin(0, 13421773, -24),
     Fin(0, 8388649, -23), Fin(0, 8388650, -23), NaN, Inf(0)}

\* unit directions, as main builds them with Direction::new
HDirs ==
    {Direction(One, F32Zero, F32Zero),
     Direction(TwoThirds, F32Neg(Third), TwoThirds)}

\* scalars given to mul_in_place: -0.5f32 and 2^127
Scalars == {Lit(1, 1, -1), Lit(0, 1, 127)}

\* directions the sampler returns to from_function: (-1, 0, 0) and
\* (1, 1, 0) / 2f32.sqrt()
ProjDirs ==
    {Normalized(Candidate(0), Candidate(8388608), Candidate(8388608)),
     Normalized(Candidate(13421773), Candidate(13421773), Candidate(8388608))}

\* rng.gen::<f32>() * 2f32 - 1f32 for each draw of DrawBits, computed once
CandidateTable == {<<k, Candidate(k)>> : k \in DrawBits}

CandidateOf(k) == (CHOOSE p \in CandidateTable : p[1] = k)[2]

Candidates == {p[2] : p \in CandidateTable}

\* for each candidate (x, y, z) of those draws, computed once: r2 = x*x + y*y
\* + z*z, the outcome of the test r2 > 1f32, and the Direction returned when
\* it passes
TrialTable ==
    {[candidate |-> t,
      r2 |-> SqNorm(t[1], t[2], t[3]),
      rejected |-> Rejected(t[1], t[2], t[3]),
      direction |-> Normalized(t[1], t[2], t[3])] :
        t \in Candidates \X Candidates \X Candidates}

TrialOf(x, y, z) == CHOOSE r \in TrialTable : r.candidate = <<x, y, z>>

\* every Direction generate_random_on_sphere returns on the draws of DrawBits
SphereDirs == {r.direction : r \in {u \in TrialTable : ~u.rejected}}

\* Direction::generate_random_on_hemisphere(normal, rng): a direction d of
\* the sphere with dot(normal, d) >= 0
generate_random_on_hemisphere(normal) ==
    {d \in SphereDirs : F32Ge(dot(normal, d), F32Zero)}

\* the functions of direction given to from_function
ProjFuncs == {"one", "x", "quad"}

\* the normals given to integrate_real_space_hemisphere
Normals == {Direction(One, F32Zero, F32Zero),
            Direction(F32Zero, InvSqrt2, InvSqrt2)}

\* a call of Direction::new that has not run yet
Pending(args) ==
    [args |-> args, called |-> FALSE, panicked |-> FALSE, value |-> <<>>]

NoCall == Pending(<<F32Zero, F32Zero, F32Zero>>)

IdleRng == [stream |-> [i \in 1..StreamLen |-> 0], pos |-> 1]

NoFrame == [pc |-> "x", got |-> 0, x |-> F32Zero, y |-> F32Zero, z |-> F32Zero,
            ret |-> <<>>]

\* let mut a = SHFuncApproximation::new(); let mut b = SHFuncApproximation::new();
FreshSh ==
    [self |-> SHFuncApproximation_new, other |-> SHFuncApproximation_new,
     muts |-> 0, op |-> "new", tgt |-> "self", dir |-> <<>>, before |-> <<>>,
     ret |-> <<>>]

\* from_function entered: approximation and temporary are new()
ProjEntry(func, count) ==
    [pc |-> "loop", func |-> func, count |-> count, i |-> 0,
     approximation |-> SHFuncApproximation_new,
     temporary |-> SHFuncApproximation_new,
     drawn |-> <<>>, called |-> <<>>]

\* an integrator entered: let mut sum = 0f32
IntegEntry(kind, func, normal, count) ==
    [pc |-> "loop", kind |-> kind, func |-> func, normal |-> normal,
     count |-> count, i |-> 0, sum |-> F32Zero, passed |-> <<>>,
     ret |-> <<>>]

InitDirection ==
    /\ dnew \in {Pending(<<x, y, z>>) : x \in NewInputs, y \in NewInputs,
                                         z \in NewInputs}
    /\ rng = IdleRng
    /\ samp = NoFrame
    /\ sh = FreshSh
    /\ proj = ProjEntry("one", 0)
    /\ integ = IntegEntry("sphere", "one", Direction(One, F32Zero, F32Zero), 0)

InitSphere ==
    /\ dnew = NoCall
    /\ rng \in [stream : [1..StreamLen -> DrawBits], pos : {1}]
    /\ samp = NoFrame
    /\ sh = FreshSh
    /\ proj = ProjEntry("one", 0)
    /\ integ = IntegEntry("sphere", "one", Direction(One, F32Zero, F32Zero), 0)

InitHarmonics ==
    /\ dnew = NoCall
    /\ rng = IdleRng
    /\ samp = NoFrame
    /\ sh = FreshSh
    /\ proj = ProjEntry("one", 0)
    /\ integ = IntegEntry("sphere", "one", Direction(One, F32Zero, F32Zero), 0)

InitProject ==
    /\ dnew = NoCall
    /\ rng = IdleRng
    /\ samp = NoFrame
    /\ sh = FreshSh
    /\ proj \in {ProjEntry(f, n) : f \in ProjFuncs, n \in 0..MaxCount}
    /\ integ = IntegEntry("sphere", "one", Direction(One, F32Zero, F32Zero), 0)

InitIntegrate ==
    /\ dnew = NoCall
    /\ rng = IdleRng
    /\ samp = NoFrame
    /\ sh = FreshSh
    /\ proj = ProjEntry("one", 0)
    /\ integ \in
         {IntegEntry("sphere", f, Direction(One, F32Zero, F32Zero), n) :
             f \in {"one", "x"}, n \in 0..MaxCount}
         \cup {IntegEntry("hemisphere", f, nrm, n) :
             f \in {"one", "lightning"}, nrm \in Normals, n \in 0..MaxCount}

\* ------------------------------------------------------------------------
\* Direction::new
\* ------------------------------------------------------------------------

\* the call after Direction::new ended with out
Called(out) ==
    [dnew EXCEPT !.called = TRUE, !.panicked = out.panicked,
                 !.value = out.value]

CallDirectionNew ==
    /\ ~dnew.called
    /\ dnew' = Called(Direction_new(dnew.args[1], dnew.args[2], dnew.args[3]))
    /\ UNCHANGED <<rng, samp, sh, proj, integ>>

NextDirection == CallDirectionNew

DirectionSpec == InitDirection /\ [][NextDirection]_vars

\* ------------------------------------------------------------------------
\* Direction::generate_random_on_sphere
\* ------------------------------------------------------------------------

\* rng.gen::<f32>() * 2f32 - 1f32 on the next value of the stream
NextCandidate == CandidateOf(rng.stream[rng.pos])

Advance == rng' = [rng EXCEPT !.pos = (rng.pos % StreamLen) + 1]

DrawX ==
    /\ samp.pc = "x"
    /\ samp' = [samp EXCEPT !.pc = "y", !.got = samp.got + 1, !.x = NextCandidate]
    /\ Advance
    /\ UNCHANGED <<dnew, sh, proj, integ>>

DrawY ==
    /\ samp.pc = "y"
    /\ samp' = [samp EXCEPT !.pc = "z", !.got = samp.got + 1, !.y = NextCandidate]
    /\ Advance
    /\ UNCHANGED <<dnew, sh, proj, integ>>

DrawZ ==
    /\ samp.pc = "z"
    /\ samp' = [samp EXCEPT !.pc = "test", !.got = samp.got + 1, !.z = NextCandidate]
    /\ Advance
    /\ UNCHANGED <<dnew, sh, proj, integ>>

\* if r2 > 1f32 { continue; }
Retry ==
    /\ samp.pc = "test"
    /\ TrialOf(samp.x, samp.y, samp.z).rejected
    /\ samp' = NoFrame
    /\ UNCHANGED <<dnew, rng, sh, proj, integ>>

\* return Direction {x: x/r, y: y/r, z: z/r}
Return ==
    /\ samp.pc = "test"
    /\ ~TrialOf(samp.x, samp.y, samp.z).rejected
    /\ samp' = [samp EXCEPT !.pc = "returned",
                            !.ret = <<TrialOf(samp.x, samp.y, samp.z).direction>>]
    /\ UNCHANGED <<dnew, rng, sh, proj, integ>>

\* the caller's next call, on the same randomness source
CallSphere ==
    /\ samp.pc = "returned"
    /\ samp' = NoFrame
    /\ UNCHANGED <<dnew, rng, sh, proj, integ>>

NextSphere == DrawX \/ DrawY \/ DrawZ \/ Retry \/ Return \/ CallSphere

\* the loop is sequential code: it always takes its next step
SphereSpec == InitSphere /\ [][NextSphere]_vars /\ WF_vars(NextSphere)

\* ------------------------------------------------------------------------
\* The in-place operations of SHFuncApproximation
\* ------------------------------------------------------------------------

Target(t) == IF t = "self" THEN sh.self ELSE sh.other

Partner(t) == IF t = "self" THEN sh.other ELSE sh.self

\* the state after an in-place operation gave target t the coefficients c
Mutated(t, c, op, dir) ==
    [self |-> IF t = "self" THEN c ELSE sh.self,
     other |-> IF t = "other" THEN c ELSE sh.other,
     muts |-> sh.muts + 1, op |-> op, tgt |-> t, dir |-> dir,
     before |-> <<Target(t)>>, ret |-> <<>>]

CallFromDirection ==
    /\ sh.muts < MaxOps
    /\ \E t \in {"self", "other"}, d \in HDirs :
           sh' = Mutated(t, from_direction(Target(t), d), "from_direction", <<d>>)
    /\ UNCHANGED <<dnew, rng, samp, proj, integ>>

CallMulInPlace ==
    /\ sh.muts < MaxOps
    /\ \E t \in {"self", "other"}, scalar \in Scalars :
           sh' = Mutated(t, mul_in_place(Target(t), scalar), "mul_in_place", <<>>)
    /\ UNCHANGED <<dnew, rng, samp, proj, integ>>

CallAddInPlace ==
    /\ sh.muts < MaxOps
    /\ \E t \in {"self", "other"} :
           sh' = Mutated(t, add_in_place(Target(t), Partner(t)), "add_in_place", <<>>)
    /\ UNCHANGED <<dnew, rng, samp, proj, integ>>

\* a = SHFuncApproximation::from_function(|_x, _y, _z| 2f32.powi(127), rng, 1)
CallFromFunction ==
    /\ sh.muts < MaxOps
    /\ \E t \in {"self", "other"}, d \in ProjDirs :
           sh' = Mutated(t, from_function("huge", <<d>>), "from_function", <<d>>)
    /\ UNCHANGED <<dnew, rng, samp, proj, integ>>

\* self.convolution(&other)
CallConvolution ==
    /\ sh' = [sh EXCEPT !.op = "convolution", !.tgt = "self", !.dir = <<>>,
                        !.before = <<>>,
                        !.ret = <<convolution(sh.self, sh.other)>>]
    /\ UNCHANGED <<dnew, rng, samp, proj, integ>>

\* the state after eval on direction d returned r
Evaluated(d, r) ==
    [sh EXCEPT !.op = "eval", !.tgt = "other", !.dir = <<d>>,
               !.before = <<sh.other>>, !.other = r.workspace,
               !.ret = <<r.value>>]

\* self.eval(d, &mut other)
CallEval ==
    /\ \E d \in HDirs : sh' = Evaluated(d, eval(sh.self, d, sh.other))
    /\ UNCHANGED <<dnew, rng, samp, proj, integ>>

NextHarmonics ==
    \/ CallFromDirection
    \/ CallMulInPlace
    \/ CallAddInPlace
    \/ CallFromFunction
    \/ CallConvolution
    \/ CallEval

HarmonicsSpec == InitHarmonics /\ [][NextHarmonics]_vars

\* ------------------------------------------------------------------------
\* SHFuncApproximation::from_function
\* ------------------------------------------------------------------------

\* the frame after an iteration on direction d left the vectors r
Iterated(d, r) ==
    [proj EXCEPT !.i = proj.i + 1,
                 !.approximation = r.approximation,
                 !.temporary = r.temporary,
                 !.drawn = Append(proj.drawn, d),
                 !.called = Append(proj.called, <<d.x, d.y, d.z>>)]

\* for _i in 0..count: a direction of the sphere sampler, one call of func
ProjectIterate ==
    /\ proj.pc = "loop"
    /\ proj.i < proj.count
    /\ \E d \in SphereDirs :
           proj' = Iterated(d, from_function_body(proj.approximation,
                                                  proj.temporary, proj.func, d))
    /\ UNCHANGED <<dnew, rng, samp, sh, integ>>

\* after the loop: normalize by the amount of samples and return
ProjectReturn ==
    /\ proj.pc = "loop"
    /\ proj.i = proj.count
    /\ proj' = [proj EXCEPT !.pc = "returned",
                            !.approximation =
                                from_function_normalize(proj.approximation,
                                                        proj.count)]
    /\ UNCHANGED <<dnew, rng, samp, sh, integ>>

NextProject == ProjectIterate \/ ProjectReturn

ProjectSpec == InitProject /\ [][NextProject]_vars

\* ------------------------------------------------------------------------
\* integrate_real_space and integrate_real_space_hemisphere
\* ------------------------------------------------------------------------

\* Direction::generate_random_on_sphere(&mut rand), as integrate_real_space
\* calls it
SphereDirection(normal) == SphereDirs

\* the hemisphere integrator drawing from the whole sphere
HemisphereDirection_unoriented(normal) == SphereDirs

\* Direction::generate_random_on_hemisphere(normal, &mut rand), as
\* integrate_real_space_hemisphere calls it
HemisphereDirection(normal) == generate_random_on_hemisphere(normal)

\* 4f32 * PI * sum / (count as f32) of integrate_real_space
integrate_real_space_result(sum, count) ==
    F32Div(F32Mul(F32Mul(Four, PI), sum), U32AsF32(count))

\* the hemisphere's solid angle 2 PI in place of 4 PI
integrate_hemisphere_two_pi(sum, count) ==
    F32Div(F32Mul(F32Mul(Two, PI), sum), U32AsF32(count))

\* 4f32 * PI * sum / (count as f32) of integrate_real_space_hemisphere
integrate_real_space_hemisphere_result(sum, count) ==
    F32Div(F32Mul(F32Mul(Four, PI), sum), U32AsF32(count))

\* the directions the integrator's sampler can return
IntegDirections ==
    IF integ.kind = "sphere" THEN SphereDirection(integ.normal)
    ELSE HemisphereDirection(integ.normal)

\* the frame after func was called on direction d with outcome r
Summed(d, r) ==
    [integ EXCEPT
        !.pc = IF r.panic = "none" THEN "loop"
               ELSE IF r.panic = "new" THEN "panicked_new"
               ELSE "panicked_cosine",
        !.i = integ.i + 1,
        !.sum = IF r.panic = "none" THEN F32Add(integ.sum, r.value)
                ELSE integ.sum,
        !.passed = Append(integ.passed, d)]

\* for _i in 0..count: sum += func(direction.x, direction.y, direction.z);
\* a panic of func ends the call
IntegIterate ==
    /\ integ.pc = "loop"
    /\ integ.i < integ.count
    /\ \E d \in IntegDirections :
           integ' = Summed(d, CallFunc(integ.func, integ.normal, d))
    /\ UNCHANGED <<dnew, rng, samp, sh, proj>>

IntegReturn ==
    /\ integ.pc = "loop"
    /\ integ.i = integ.count
    /\ integ' = [integ EXCEPT
           !.pc = "returned",
           !.ret = <<IF integ.kind = "sphere"
                     THEN integrate_real_space_result(integ.sum, integ.count)
                     ELSE integrate_real_space_hemisphere_result(integ.sum,
                                                                 integ.count)>>]
    /\ UNCHANGED <<dnew, rng, samp, sh, proj>>

NextIntegrate == IntegIterate \/ IntegReturn

IntegrateSpec == InitIntegrate /\ [][NextIntegrate]_vars

\* ------------------------------------------------------------------------
\* Properties of Direction::new
\* ------------------------------------------------------------------------

\* x*x + y*y + z*z of the arguments of the call
DnewNorm == SqNorm(dnew.args[1], dnew.args[2], dnew.args[3])

DnewDeviation == F32Abs(F32Sub(DnewNorm, One))

\* the outcome carries the arguments unchanged, or nothing after a panic
DnewOutcome ==
    /\ ~dnew.panicked =>
           dnew.value = <<Direction(dnew.args[1], dnew.args[2], dnew.args[3])>>
    /\ dnew.panicked => dnew.value = <<>>

\* C1 as stated: Direction::new panics whenever |x*x + y*y + z*z - 1| >= 1e-5
\* and for every other input returns the Direction of exactly x, y, z; no
\* Direction is produced when it panics.
C1_PanicsIffDeviationGe ==
    dnew.called =>
        /\ dnew.panicked <=> F32Ge(DnewDeviation, Tolerance)
        /\ DnewOutcome

\* C1 amended: Direction::new panics exactly when |x*x + y*y + z*z - 1| < 1e-5
\* does not hold, that is when the deviation is >= 1e-5 or is NaN; for every
\* other input it returns the Direction of exactly x, y, z, and no Direction
\* is produced when it panics.
C1_PanicsUnlessDeviationLt ==
    dnew.called =>
        /\ dnew.panicked <=> ~F32Lt(DnewDeviation, Tolerance)
        /\ DnewOutcome

\* a call that panicked one step of the mantissa outside the tolerance
C1_Witness ==
    /\ dnew.called
    /\ dnew.args = <<Fin(0, 8388650, -23), F32Zero, F32Zero>>
    /\ dnew.panicked

\* ------------------------------------------------------------------------
\* Properties of generate_random_on_sphere
\* ------------------------------------------------------------------------

\* C2: every Direction generate_random_on_sphere returns is a unit vector,
\* |x*x + y*y + z*z - 1| < 1e-5, also when the accepted candidate is the
\* centre (0, 0, 0) of the cube.
C2_ReturnedIsUnit ==
    samp.pc = "returned" =>
        IsNormalized(samp.ret[1].x, samp.ret[1].y, samp.ret[1].z)

\* the place n steps after place p of the stream
Place(p, n) == ((p + n - 1) % StreamLen) + 1

\* the squared norm of the candidate made of the three draws from place p
TrialNorm(p) ==
    TrialOf(CandidateOf(rng.stream[p]), CandidateOf(rng.stream[Place(p, 1)]),
            CandidateOf(rng.stream[Place(p, 2)])).r2

\* some trial of a call that starts to draw at place p has squared norm <= 1
AcceptableFrom(p) ==
    \E k \in 0..(StreamLen - 1) : F32Le(TrialNorm(Place(p, 3 * k)), One)

\* at the test and at the return the candidate is the last three draws
TrialIsThreeDraws ==
    samp.pc \in {"test", "returned"} =>
        /\ samp.got = 3
        /\ samp.x = CandidateOf(rng.stream[Place(rng.pos, StreamLen - 3)])
        /\ samp.y = CandidateOf(rng.stream[Place(rng.pos, StreamLen - 2)])
        /\ samp.z = CandidateOf(rng.stream[Place(rng.pos, StreamLen - 1)])

\* a tested trial is retried exactly when its squared norm exceeds 1, and
\* the call returns otherwise
RejectsIffOutside ==
    samp.pc = "test" =>
        /\ samp'.pc = "x" <=> F32Gt(TrialOf(samp.x, samp.y, samp.z).r2, One)
        /\ samp'.pc = "returned"
               <=> ~F32Gt(TrialOf(samp.x, samp.y, samp.z).r2, One)

\* a source none of whose trials has squared norm <= 1 never lets the call
\* return
LoopsForeverOutside ==
    (\A p \in 1..StreamLen : ~AcceptableFrom(p)) => samp.pc # "returned"

\* C10: generate_random_on_sphere consumes the source in trials of exactly
\* three draws, rejects a trial if and only if its squared norm exceeds 1 and
\* returns at the first trial that is not rejected; when the source yields a
\* candidate of squared norm <= 1 the call eventually returns, and when it
\* never does the call never returns.
C10_RejectionLoop ==
    /\ [](TrialIsThreeDraws /\ LoopsForeverOutside)
    /\ [][RejectsIffOutside]_vars
    /\ (samp.pc = "x" /\ AcceptableFrom(rng.pos)) ~> (samp.pc = "returned")

\* a call that returned although the first trial of the stream was rejected
C10_Witness ==
    /\ samp.pc = "returned"
    /\ F32Gt(TrialNorm(1), One)
    /\ rng.pos = Place(1, 6)

\* ------------------------------------------------------------------------
\* Properties of SHFuncApproximation
\* ------------------------------------------------------------------------

\* Y(d): the basis evaluated at direction d, index by index
SpecBasis(d) ==
    [i \in 0..8 |->
        CASE i = 0 -> K0
          [] i = 1 -> F32Mul(KTmpA, d.y)
          [] i = 2 -> F32Mul(K2, d.z)
          [] i = 3 -> F32Mul(KTmpA, d.x)
          [] i = 4 -> F32Mul(KTmpC, F32Add(F32Mul(d.x, d.y), F32Mul(d.y, d.x)))
          [] i = 5 -> F32Mul(F32Mul(KTmpB, d.z), d.y)
          [] i = 6 -> F32Add(F32Mul(K6a, F32Mul(d.z, d.z)), K6b)
          [] i = 7 -> F32Mul(F32Mul(KTmpB, d.z), d.x)
          [] i = 8 -> F32Mul(KTmpC, F32Sub(F32Mul(d.x, d.x), F32Mul(d.y, d.y)))]

ZeroVector == [i \in 0..8 |-> F32Zero]

AllFinite(c) == \A i \in DOMAIN c : IsFin(c[i])

\* a[0]*b[0] + ... + a[i]*b[i], summed from index 0 upwards
RECURSIVE SumOfProducts(_, _, _)
SumOfProducts(a, b, i) ==
    IF i < 0 THEN F32Zero
    ELSE F32Add(SumOfProducts(a, b, i - 1), F32Mul(a[i], b[i]))

\* 16 * PI * PI times the sum over the indices 0..8 of a[i] * b[i]
ScaledSumOfProducts(a, b) ==
    F32Mul(F32Mul(F32Mul(Sixteen, PI), PI), SumOfProducts(a, b, 8))

\* the two values are equal, or both are NaN
SameValue(a, b) == F32Eq(a, b) \/ (IsNaN(a) /\ IsNaN(b))

\* convolution leaves both operands as they were
ConvolutionReadsOnly ==
    sh'.op = "convolution" => sh'.self = sh.self /\ sh'.other = sh.other

\* C6 as stated: a.convolution(b) is 16*PI*PI times the sum over 0..8 of
\* a[i]*b[i], is symmetric, a.convolution(b) == b.convolution(a), and is 0
\* when either operand is the zero vector of new().
C6_ZeroOperandGivesZero ==
    sh.op = "convolution" =>
        /\ sh.ret = <<ScaledSumOfProducts(sh.self, sh.other)>>
        /\ F32Eq(convolution(sh.self, sh.other), convolution(sh.other, sh.self))
        /\ (sh.self = ZeroVector \/ sh.other = ZeroVector)
               => F32Eq(sh.ret[1], F32Zero)

\* C6 amended: a.convolution(b) is 16*PI*PI times the sum over 0..8 of
\* a[i]*b[i] and modifies neither operand; a.convolution(b) and
\* b.convolution(a) are equal or both NaN; the result is 0 when one operand
\* is the zero vector of new() and every coefficient of the other is finite.
C6_ZeroOperandFiniteGivesZero ==
    /\ [](sh.op = "convolution" =>
            /\ sh.ret = <<ScaledSumOfProducts(sh.self, sh.other)>>
            /\ SameValue(convolution(sh.self, sh.other),
                         convolution(sh.other, sh.self))
            /\ (\/ sh.self = ZeroVector /\ AllFinite(sh.other)
                \/ sh.other = ZeroVector /\ AllFinite(sh.self))
                   => F32Eq(sh.ret[1], F32Zero))
    /\ [][ConvolutionReadsOnly]_vars

\* a convolution of the zero vector with a vector of finite coefficients that
\* are not all zero
C6_Witness ==
    /\ sh.op = "convolution"
    /\ sh.self = ZeroVector
    /\ sh.other # ZeroVector
    /\ AllFinite(sh.other)
    /\ sh.ret = <<F32Zero>>

\* eval leaves the coefficients of sh as they were
EvalKeepsSelf == sh'.op = "eval" => sh'.self = sh.self

\* C7: sh.eval(direction, workspace) returns sh.convolution(Y(direction)) /
\* (4 * PI) whatever the workspace held before, leaves the coefficients of
\* sh unchanged, and leaves exactly Y(direction) in the workspace.
C7_EvalOverwritesWorkspace ==
    /\ [](sh.op = "eval" =>
            /\ sh.ret = <<F32Div(ScaledSumOfProducts(sh.self,
                                                     SpecBasis(sh.dir[1])),
                                 F32Mul(Four, PI))>>
            /\ sh.other = SpecBasis(sh.dir[1]))
    /\ [][EvalKeepsSelf]_vars

\* an eval of nonzero coefficients on a workspace that held the basis of
\* another direction
C7_Witness ==
    /\ sh.op = "eval"
    /\ sh.self # ZeroVector
    /\ sh.before # <<ZeroVector>>
    /\ sh.before # <<sh.other>>
    /\ ~F32Eq(sh.ret[1], F32Zero)

\* C8: the coefficient vector of every SHFuncApproximation has exactly the 9
\* indices 0..8, after new() and after every sequence of from_direction,
\* mul_in_place, add_in_place, from_function, eval and convolution calls.
C8_AlwaysNineCoefficients ==
    \A c \in {sh.self, sh.other} :
        DOMAIN c = 0..8 /\ Cardinality(DOMAIN c) = 9

\* both vectors after two in-place operations, the last an addition
C8_Witness ==
    /\ sh.muts >= 2
    /\ sh.op = "add_in_place"
    /\ sh.self # ZeroVector
    /\ sh.other # ZeroVector

\* C9: from_direction(direction) gives each of the indices 0..8 the value of
\* its formula (0 constant; 1, 2, 3 linear in y, z, x; 4 in 2xy; 5 in yz; 6
\* in z*z; 7 in xz; 8 in x*x - y*y), so the vector depends on the direction
\* alone and not on what it held before.
C9_FromDirectionIsBasis ==
    sh.op = "from_direction" =>
        (IF sh.tgt = "self" THEN sh.self ELSE sh.other) = SpecBasis(sh.dir[1])

\* from_direction on a vector that held other nonzero coefficients
C9_Witness ==
    /\ sh.op = "from_direction"
    /\ sh.before # <<ZeroVector>>
    /\ sh.before # <<SpecBasis(sh.dir[1])>>
    /\ sh.other = SpecBasis(sh.dir[1])

\* ------------------------------------------------------------------------
\* Properties of from_function
\* ------------------------------------------------------------------------

\* acc + f * y, coefficient by coefficient
AddWeighted(acc, y, f) == [j \in 0..8 |-> F32Add(acc[j], F32Mul(y[j], f))]

\* the sum over i = 1..n of func(d_i) * Y(d_i), in draw order
RECURSIVE WeightedBasisSum(_, _, _)
WeightedBasisSum(func, ds, n) ==
    IF n = 0 THEN ZeroVector
    ELSE AddWeighted(WeightedBasisSum(func, ds, n - 1), SpecBasis(ds[n]),
                     FuncValue(func, ds[n].x, ds[n].y, ds[n].z))

\* (1/N) * v
ScaledByCount(v, count) ==
    [j \in 0..8 |-> F32Mul(v[j], F32Div(One, U32AsF32(count)))]

\* C4: for count N >= 1 from_function returns (1/N) times the sum over the
\* N sampled directions, in draw order, of func(d_i) * Y(d_i); func is called
\* once per sampled direction, on its components, and the accumulator is
\* scaled once, after the loop.
C4_ProjectionIsScaledSum ==
    (proj.pc = "returned" /\ proj.count >= 1) =>
        /\ Len(proj.drawn) = proj.count
        /\ proj.called =
               [i \in 1..proj.count |->
                   <<proj.drawn[i].x, proj.drawn[i].y, proj.drawn[i].z>>]
        /\ proj.approximation =
               ScaledByCount(WeightedBasisSum(proj.func, proj.drawn, proj.count),
                             proj.count)

\* a projection of x*x + y*z returned over two different directions
C4_Witness ==
    /\ proj.pc = "returned"
    /\ proj.func = "quad"
    /\ proj.count >= 2
    /\ proj.drawn[1] # proj.drawn[2]
    /\ proj.approximation # ZeroVector

\* ------------------------------------------------------------------------
\* Properties of the integrators
\* ------------------------------------------------------------------------

\* func(d_1) + ... + func(d_n), summed in draw order
RECURSIVE SumOfFunc(_, _, _, _)
SumOfFunc(func, normal, ds, n) ==
    IF n = 0 THEN F32Zero
    ELSE F32Add(SumOfFunc(func, normal, ds, n - 1),
                CallFunc(func, normal, ds[n]).value)

FourPi == F32Mul(Four, PI)

\* 0.0001f32
Tenth4 == Fin(0, 13743895, -37)

\* C3: every direction integrate_real_space_hemisphere passes to func was
\* drawn by the hemisphere sampler for the normal and has dot(normal, d) >= 0,
\* so the assertion cosine >= 0 of main's integrand never fails.
C3_HemisphereDirectionsOnly ==
    integ.kind = "hemisphere" =>
        /\ \A i \in 1..Len(integ.passed) :
               /\ integ.passed[i] \in generate_random_on_hemisphere(integ.normal)
               /\ F32Ge(dot(integ.normal, integ.passed[i]), F32Zero)
        /\ integ.pc # "panicked_cosine"

\* the hemisphere integration of main's integrand returned after two samples
C3_Witness ==
    /\ integ.kind = "hemisphere"
    /\ integ.func = "lightning"
    /\ integ.pc = "returned"
    /\ Len(integ.passed) >= 2

\* C5: for count N >= 1 each integrator returns 4 * PI * sum / N, the sum
\* being func over exactly the N sampled directions, with the factor 4 * PI
\* in both; for the constant function 1 both return 4 * PI (within the
\* 0.0001 of the tests) whichever directions were drawn.
C5_FourPiOverCount ==
    (integ.pc = "returned" /\ integ.count >= 1) =>
        /\ Len(integ.passed) = integ.count
        /\ integ.ret =
               <<F32Div(F32Mul(FourPi,
                               SumOfFunc(integ.func, integ.normal, integ.passed,
                                         integ.count)),
                        U32AsF32(integ.count))>>
        /\ integ.func = "one" =>
               F32Lt(F32Abs(F32Sub(integ.ret[1], FourPi)), Tenth4)

\* the hemisphere integration of the constant 1 returned after two samples
C5_Witness ==
    /\ integ.kind = "hemisphere"
    /\ integ.func = "one"
    /\ integ.pc = "returned"
    /\ integ.count >= 2
    /\ integ.ret = <<FourPi>>

====
